---- MODULE Spec2Model ----
(***************************************************************************)
(* Auction marketplace backend: the auction ledger (auctions, bids), the   *)
(* bidding engine (place_bid), the closer (end_auction and the lazy        *)
(* expiry inside get_auction_status / place_bid), the read endpoints, and  *)
(* the settlement flow (create_order, update_shipping_method, pay_order    *)
(* with PaymentService.process_payment).                                   *)
(*                                                                         *)
(* The relational tables are the state.  Spec runs every request handler   *)
(* as one atomic step (one-at-a-time execution).  SpecBidConc,             *)
(* SpecOrderConc and SpecPayConc split place_bid, create_order and         *)
(* pay_order at their queries and commits, so two requests (each with its  *)
(* own SQLAlchemy session) can interleave, and a request can die between   *)
(* two commits.                                                            *)
(***************************************************************************)
EXTENDS Integers, Sequences, FiniteSets, TLC

\* ---------------------------------------------------------------- bounds
MaxTime == 2
MaxAmount == 3
MaxBids == 2

\* ------------------------------------------------------------- constants
SHIPPING_TIME_DAYS == 5

Seller == "seller"
Users == {"seller", "alice", "bob"}
NoUser == "none"
NoBid == 0
Items == {"item1"}
Addresses == {"addr_alice", "addr_bob"}
address_owner == [addr_alice |-> "alice", addr_bob |-> "bob"]
Procs == {"r1", "r2"}

AuctionStatus == {"SCHEDULED", "ACTIVE", "ENDED", "CANCELLED"}
ShippingMethod == {"NORMAL", "EXPEDITED"}
StartingPrices == {1}
MinIncrements == {-1, 1}
Amounts == 1..MaxAmount
Times == 0..MaxTime
ShipPrices == {<<1, 2>>, <<2, 3>>}   \* (normal, expedited) prices an item update sets
Cards == {<<4, 0, 0, 0, 1>>, <<4, 1, 1, 1, 1>>, <<4, 0, 0, 1, 0>>}
DECLINE_PREFIX == <<4, 0, 0, 0>>

VARIABLES
    now,        \* the server clock, datetime.now(timezone.utc)
    items,      \* catalogue_items: item_id -> row
    auctions,   \* auctions: auction_id -> row (the id is the item's, item_id is unique)
    bids,       \* bids: the rows in insertion order; bid_id is the position
    orders,     \* orders: the rows in insertion order; order_id is the position
    payments,   \* payments: the rows in insertion order; payment_id is the position
    receipts,   \* receipts: the rows in insertion order
    shipments,  \* shipments: the rows in insertion order
    inflight,   \* interleaved runs: request -> its position and the rows its session loaded
    resp        \* the response of the last completed request

vars == <<now, items, auctions, bids, orders, payments, receipts, shipments,
          inflight, resp>>

\* ---------------------------------------------------------------- helpers
Max(S) == CHOOSE x \in S : \A y \in S : y <= x

Idle == [pc |-> "idle"]

EmptyTable == [x \in {} |-> x]

Reply(op, caller, result, body) ==
    [op |-> op, caller |-> caller, result |-> result, body |-> body]

NoBody == [none |-> TRUE]

\* No response is outstanding (before the first request, and once time has moved on).
NoReply == Reply("none", NoUser, "ok", NoBody)

\* The bids of one auction, as the set of their positions in the table.
BidIdsOf(bs, a) == {i \in 1..Len(bs) : bs[i].auction_id = a}

AmountsOf(bs, a) == {bs[i].amount : i \in BidIdsOf(bs, a)}

\* get_current_bidding_price: starting_price without bids, else the maximum amount.
get_current_bidding_price(auc, bs, a) ==
    IF BidIdsOf(bs, a) = {} THEN auc.starting_price ELSE Max(AmountsOf(bs, a))

\* The bids a query ORDER BY amount DESC may return first: any bid of maximal
\* amount (the order among equal amounts is not specified by the query).
TopBids(bs, a) ==
    {i \in BidIdsOf(bs, a) : \A j \in BidIdsOf(bs, a) : bs[j].amount <= bs[i].amount}

\* max(auction.bids, key=amount): the first maximal bid in load order.
highest_bid(bs, a) ==
    IF BidIdsOf(bs, a) = {} THEN NoBid
    ELSE CHOOSE i \in TopBids(bs, a) : \A j \in TopBids(bs, a) : i <= j

BidderOf(bs, i) == IF i = NoBid THEN NoUser ELSE bs[i].bidder_id

\* get_remaining_time: None (-1 here) unless ACTIVE, else max(0, end_time - now).
None == -1
get_remaining_time(auc) ==
    IF auc.status # "ACTIVE" THEN None
    ELSE IF auc.end_time <= now THEN 0
    ELSE auc.end_time - now

\* ------------------------------------------------------------------- Init
Init ==
    /\ now = 0
    /\ items = [i \in Items |->
                  [seller_id |-> Seller,
                   shipping_price_normal |-> 1,
                   shipping_price_expedited |-> 2,
                   shipping_time_days |-> SHIPPING_TIME_DAYS]]
    /\ auctions = EmptyTable
    /\ bids = <<>>
    /\ orders = <<>>
    /\ payments = <<>>
    /\ receipts = <<>>
    /\ shipments = <<>>
    /\ inflight = [p \in Procs |-> Idle]
    /\ resp = NoReply

\* The clock advances between requests; the previous response is history then.
Tick ==
    /\ now < MaxTime
    /\ now' = now + 1
    /\ resp' = NoReply
    /\ UNCHANGED <<items, auctions, bids, orders, payments, receipts, shipments,
                   inflight>>

\* ----------------------------------------------------------- catalogue
update_catalogue_item(i, item_update) ==
    /\ i \in DOMAIN items
    /\ items' = [items EXCEPT ![i].shipping_price_normal = item_update[1],
                              ![i].shipping_price_expedited = item_update[2]]
    /\ resp' = Reply("update_catalogue_item", NoUser, "ok", NoBody)
    /\ UNCHANGED <<now, auctions, bids, orders, payments, receipts, shipments,
                   inflight>>

\* ------------------------------------------------------------ auctions
created_status(st, et, requested) ==
    IF et <= now THEN "ENDED"
    ELSE IF st <= now THEN "ACTIVE"
    ELSE requested

\* The request bodies the AuctionCreate schema accepts (its validator demands
\* end_time > start_time).
AuctionCreate ==
    {d \in [item_id : Items, starting_price : StartingPrices,
            min_increment : MinIncrements, start_time : Times, end_time : Times,
            status : AuctionStatus] : d.start_time < d.end_time}

\* A variant of AuctionRowAccepted without the unique constraint.
AuctionRowAccepted_no_unique(tbl, row) == TRUE

\* The constraint of the auctions table: item_id is unique.
AuctionRowAccepted(tbl, row) ==
    \A k \in DOMAIN tbl : tbl[k].item_id # row.item_id

\* The key a further auction row of an item would carry.  The first auction of
\* an item is addressed by its item; the unique constraint admits no other.
SecondAuctionOf == [i \in Items |-> "item1_second"]

new_auction_id(tbl, i) == IF i \notin DOMAIN tbl THEN i ELSE SecondAuctionOf[i]

\* The body of create_auction.  sauc is the auctions table as its "existing
\* auction" query saw it; the INSERT is judged against the table as it is at
\* the commit.
create_auction_run(u, auction_data, sauc) ==
    LET i == auction_data.item_id
        sp == auction_data.starting_price
        inc == auction_data.min_increment
        st == auction_data.start_time
        et == auction_data.end_time
        requested == auction_data.status
        row == [item_id |-> i,
                starting_price |-> sp,
                min_increment |-> inc,
                start_time |-> st,
                end_time |-> et,
                status |-> created_status(st, et, requested),
                winning_bid_id |-> NoBid,
                winning_bidder_id |-> NoUser]
    IN
    IF i \notin DOMAIN items
    THEN /\ resp' = Reply("create_auction", u, "NotFound", NoBody)
         /\ UNCHANGED auctions
    ELSE IF items[i].seller_id # u
    THEN /\ resp' = Reply("create_auction", u, "Forbidden", NoBody)
         /\ UNCHANGED auctions
    ELSE IF \E k \in DOMAIN sauc : sauc[k].item_id = i
    THEN /\ resp' = Reply("create_auction", u, "Conflict", NoBody)
         /\ UNCHANGED auctions
    ELSE IF AuctionRowAccepted(auctions, row)
    THEN /\ auctions' = (new_auction_id(auctions, i) :> row) @@ auctions
         /\ resp' = Reply("create_auction", u, "ok", [status |-> row.status])
    ELSE /\ resp' = Reply("create_auction", u, "IntegrityError", NoBody)
         /\ UNCHANGED auctions

create_auction(u, auction_data) ==
    /\ create_auction_run(u, auction_data, auctions)
    /\ UNCHANGED <<now, items, bids, orders, payments, receipts, shipments,
                   inflight>>

\* ------------------------------------------------------------- bidding
\* A variant of min_bid that forgets the increment.
min_bid_no_increment(auc, bs, a) == get_current_bidding_price(auc, bs, a)

\* min_bid = current_price + auction.min_increment
min_bid(auc, bs, a) == get_current_bidding_price(auc, bs, a) + auc.min_increment

\* A variant of is_seller that lets every caller through.
is_seller_never(auc, u) == FALSE

\* auction.item.seller_id == current_user.user_id
is_seller(auc, u) == items[auc.item_id].seller_id = u

\* A variant of with_bid that keeps one bid per bidder and auction: the new
\* bid takes the place of the bidder's earlier one.
with_bid_replacing(bs, row) ==
    IF \E i \in 1..Len(bs) : bs[i].auction_id = row.auction_id /\ bs[i].bidder_id = row.bidder_id
    THEN LET i == CHOOSE i \in 1..Len(bs) :
                    bs[i].auction_id = row.auction_id /\ bs[i].bidder_id = row.bidder_id
         IN [bs EXCEPT ![i].amount = row.amount]
    ELSE Append(bs, row)

\* The INSERT of the new bid: a row added to the bids table.
with_bid(bs, row) == Append(bs, row)

\* A variant of not_started that lets early bids through.
not_started_never(auc) == FALSE

\* The auction hasn't started yet.
not_started(auc) == auc.start_time > now

\* A variant of auto_activate that never activates.
auto_activate_never(auc) == FALSE

\* Auto-activate the auction if start_time has passed.
auto_activate(auc) == auc.start_time <= now /\ auc.status = "SCHEDULED"

\* The body of place_bid after its first query.  sa and sb are the auction
\* and bid rows the session loaded (joinedload); u is the authenticated caller.
place_bid_run(u, a, amt, sa, sb) ==
    IF a \notin DOMAIN sa
    THEN /\ resp' = Reply("place_bid", u, "NotFound", NoBody)
         /\ UNCHANGED <<auctions, bids>>
    ELSE LET auc == sa[a] IN
      IF auc.end_time <= now
      THEN /\ auctions' = IF auc.status # "ENDED"
                          THEN [auctions EXCEPT ![a].status = "ENDED"]
                          ELSE auctions
           /\ resp' = Reply("place_bid", u, "AuctionEnded", NoBody)
           /\ UNCHANGED bids
      ELSE
        LET activate == auto_activate(auc)
            \* the commit of the activation expires the session's rows: the
            \* following attribute reads reload them from the database
            cur == IF activate THEN [auctions[a] EXCEPT !.status = "ACTIVE"] ELSE auc
            cb == IF activate THEN bids ELSE sb
            current_price == get_current_bidding_price(cur, cb, a)
        IN
        /\ auctions' = IF activate
                       THEN [auctions EXCEPT ![a].status = "ACTIVE"]
                       ELSE auctions
        /\ IF not_started(cur)
           THEN /\ resp' = Reply("place_bid", u, "NotStarted", NoBody)
                /\ UNCHANGED bids
           ELSE IF cur.status # "ACTIVE"
           THEN /\ resp' = Reply("place_bid", u, "InvalidState", [status |-> cur.status])
                /\ UNCHANGED bids
           ELSE IF amt < min_bid(cur, cb, a)
           THEN /\ resp' = Reply("place_bid", u, "BidTooLow",
                                 [min_bid |-> min_bid(cur, cb, a), current |-> current_price,
                                  increment |-> cur.min_increment])
                /\ UNCHANGED bids
           ELSE IF is_seller(cur, u)
           THEN /\ resp' = Reply("place_bid", u, "SelfBid", NoBody)
                /\ UNCHANGED bids
           ELSE /\ Len(bids) < MaxBids
                /\ bids' = with_bid(bids, [bid_id |-> Len(bids) + 1,
                                           auction_id |-> a,
                                           bidder_id |-> u,
                                           amount |-> amt])
                /\ resp' = Reply("place_bid", u, "ok",
                                 [bid_id |-> Len(bids) + 1,
                                  amount |-> amt,
                                  is_winning_bid |-> TRUE,
                                  current_highest_bid |-> amt,
                                  current_highest_bidder_id |-> u])

place_bid(u, a, amt) ==
    /\ place_bid_run(u, a, amt, auctions, bids)
    /\ UNCHANGED <<now, items, orders, payments, receipts, shipments,
                   inflight>>

\* A variant of Winners that takes any bid of the auction.
Winners_any_bid(a) == IF BidIdsOf(bids, a) = {} THEN {NoBid} ELSE BidIdsOf(bids, a)

\* -------------------------------------------------------------- closing
\* The rows "ORDER BY amount DESC" may put first; NoBid when there is no bid.
Winners(a) == IF BidIdsOf(bids, a) = {} THEN {NoBid} ELSE TopBids(bids, a)

\* A variant of ended_response that determines the winner again from the bids.
ended_response_rescan(auc, a) ==
    [status |-> auc.status,
     winning_bid_id |-> highest_bid(bids, a),
     winning_bidder_id |-> BidderOf(bids, highest_bid(bids, a)),
     final_price |-> IF BidIdsOf(bids, a) # {}
                     THEN get_current_bidding_price(auc, bids, a)
                     ELSE auc.starting_price,
     message |-> "Auction has already ended",
     can_pay |-> FALSE]

\* The response of end_auction for an auction that is ENDED already: the
\* stored winner, the current bidding price, and can_pay False.
ended_response(auc, a) ==
    [status |-> auc.status,
     winning_bid_id |-> auc.winning_bid_id,
     winning_bidder_id |-> auc.winning_bidder_id,
     final_price |-> IF BidIdsOf(bids, a) # {}
                     THEN get_current_bidding_price(auc, bids, a)
                     ELSE auc.starting_price,
     message |-> "Auction has already ended",
     can_pay |-> FALSE]

\* A variant of may_end that lets every user close.
may_end_anyone(item, u) == TRUE

\* Only the seller of the item can end the auction.
may_end(item, u) == item.seller_id = u

end_auction(u, a) ==
    /\ IF a \notin DOMAIN auctions
       THEN /\ resp' = Reply("end_auction", u, "NotFound", NoBody)
            /\ UNCHANGED auctions
       ELSE LET auc == auctions[a] IN
         IF ~may_end(items[auc.item_id], u)
         THEN /\ resp' = Reply("end_auction", u, "Forbidden", NoBody)
              /\ UNCHANGED auctions
         ELSE IF auc.status = "ENDED"
         THEN /\ resp' = Reply("end_auction", u, "ok", ended_response(auc, a))
              /\ UNCHANGED auctions
         ELSE \E w \in Winners(a) :
              /\ auctions' = [auctions EXCEPT ![a].status = "ENDED",
                                              ![a].winning_bid_id = w,
                                              ![a].winning_bidder_id = BidderOf(bids, w)]
              /\ resp' = Reply("end_auction", u, "ok",
                   [status |-> "ENDED",
                    winning_bid_id |-> w,
                    winning_bidder_id |-> BidderOf(bids, w),
                    final_price |-> IF w # NoBid THEN bids[w].amount
                                    ELSE auc.starting_price,
                    message |-> IF w # NoBid THEN "Auction ended. Winner"
                                ELSE "Auction ended with no bids",
                    can_pay |-> (w # NoBid)])
    /\ UNCHANGED <<now, items, bids, orders, payments, receipts, shipments,
                   inflight>>

\* A variant of needs_lazy_close that closes again whatever the stored status.
needs_lazy_close_any_status(auc) == auc.end_time <= now

\* get_auction_status closes an auction that is ACTIVE past its end_time.
needs_lazy_close(auc) == auc.status = "ACTIVE" /\ auc.end_time <= now

get_auction_status(a) ==
    /\ IF a \notin DOMAIN auctions
       THEN /\ resp' = Reply("get_auction_status", NoUser, "NotFound", NoBody)
            /\ UNCHANGED auctions
       ELSE LET auc == auctions[a]
                hasBids == BidIdsOf(bids, a) # {}
                body(row) ==
                   [auction_id |-> a,
                    status |-> row.status,
                    winning_bid_id |-> row.winning_bid_id,
                    winning_bidder_id |-> row.winning_bidder_id,
                    final_price |-> IF hasBids \/ row.status = "ENDED"
                                    THEN get_current_bidding_price(row, bids, a)
                                    ELSE None,
                    message |-> IF row.status = "ACTIVE" THEN "Auction is active"
                                ELSE "Auction has ended",
                    can_pay |-> (row.status = "ENDED" /\ hasBids)]
            IN
         IF needs_lazy_close(auc)
         THEN \E w \in Winners(a) :
              LET row == [auc EXCEPT !.status = "ENDED",
                                     !.winning_bid_id = w,
                                     !.winning_bidder_id = BidderOf(bids, w)]
              IN /\ auctions' = [auctions EXCEPT ![a] = row]
                 /\ resp' = Reply("get_auction_status", NoUser, "ok", body(row))
         ELSE /\ resp' = Reply("get_auction_status", NoUser, "ok", body(auc))
              /\ UNCHANGED auctions
    /\ UNCHANGED <<now, items, bids, orders, payments, receipts, shipments,
                   inflight>>

\* ---------------------------------------------------------------- reads
AuctionItemSummary(a) ==
    LET auc == auctions[a] IN
    [auction_id |-> a,
     current_bidding_price |-> get_current_bidding_price(auc, bids, a),
     remaining_time_seconds |-> get_remaining_time(auc),
     status |-> auc.status,
     current_highest_bidder_id |-> BidderOf(bids, highest_bid(bids, a))]

\* status_filter is the request's status field; "ANY" when it is null.
search_auctions(status_filter) ==
    /\ resp' = Reply("search_auctions", NoUser, "ok",
                 [items |-> {AuctionItemSummary(a) :
                               a \in {x \in DOMAIN auctions :
                                        status_filter = "ANY"
                                        \/ auctions[x].status = status_filter}}])
    /\ UNCHANGED <<now, items, auctions, bids, orders, payments, receipts,
                   shipments, inflight>>

get_auction_item_detail(i) ==
    /\ resp' = IF i \notin DOMAIN auctions
               THEN Reply("get_auction_item_detail", NoUser, "NotFound", NoBody)
               ELSE Reply("get_auction_item_detail", NoUser, "ok", AuctionItemSummary(i))
    /\ UNCHANGED <<now, items, auctions, bids, orders, payments, receipts,
                   shipments, inflight>>

get_auction(a) ==
    /\ resp' = IF a \notin DOMAIN auctions
               THEN Reply("get_auction", NoUser, "NotFound", NoBody)
               ELSE LET auc == auctions[a] IN
                    Reply("get_auction", NoUser, "ok",
                      [auction_id |-> a,
                       status |-> auc.status,
                       end_time |-> auc.end_time,
                       winning_bid_id |-> auc.winning_bid_id,
                       winning_bidder_id |-> auc.winning_bidder_id,
                       current_highest_bid |-> get_current_bidding_price(auc, bids, a),
                       current_highest_bidder_id |-> BidderOf(bids, highest_bid(bids, a)),
                       remaining_time_seconds |-> get_remaining_time(auc)])
    /\ UNCHANGED <<now, items, auctions, bids, orders, payments, receipts,
                   shipments, inflight>>

\* A variant of determine_bid_status that compares the bidder only, not the bid.
determine_bid_status_by_bidder(i, w) ==
    LET bid == bids[i]
        a == bid.auction_id
        auc == auctions[a]
        top == Max(AmountsOf(bids, a))
    IN IF auc.status = "ENDED"
       THEN IF auc.winning_bidder_id = bid.bidder_id
            THEN <<"WON", top>> ELSE <<"ENDED", top>>
       ELSE IF auc.status # "ACTIVE"
       THEN <<"ENDED", top>>
       ELSE IF bids[w].bidder_id = bid.bidder_id
       THEN <<"LEADING", bids[w].amount>>
       ELSE <<"OUTBID", bids[w].amount>>

\* BidService._determine_bid_status for the user's bid i: (label, current
\* highest amount).  w is the row the "ORDER BY amount DESC LIMIT 1" query returns.
determine_bid_status(i, w) ==
    LET bid == bids[i]
        a == bid.auction_id
        auc == auctions[a]
        top == Max(AmountsOf(bids, a))
    IN IF auc.status = "ENDED"
       THEN IF auc.winning_bidder_id = bid.bidder_id
            THEN <<"WON", top>> ELSE <<"ENDED", top>>
       ELSE IF auc.status # "ACTIVE"
       THEN <<"ENDED", top>>
       ELSE IF bids[w].bidder_id = bid.bidder_id /\ bids[w].bid_id = bid.bid_id
       THEN <<"LEADING", bids[w].amount>>
       ELSE <<"OUTBID", bids[w].amount>>

\* BidService._calculate_time_left
calculate_time_left(auc) ==
    IF auc.status # "ACTIVE" \/ auc.end_time <= now THEN None
    ELSE auc.end_time - now

\* The k-th element of a set of bid positions, most recent first.
MostRecent(S, k) == CHOOSE i \in S : Cardinality({j \in S : j > i}) = k - 1

get_my_bids(u) ==
    LET mine == {i \in 1..Len(bids) : bids[i].bidder_id = u} IN
    /\ \E pick \in [mine -> 1..Len(bids)] :
         /\ \A i \in mine : pick[i] \in TopBids(bids, bids[i].auction_id)
         /\ resp' = Reply("get_my_bids", u, "ok",
              [bids |-> [k \in 1..Cardinality(mine) |->
                  LET i == MostRecent(mine, k)
                      auc == auctions[bids[i].auction_id]
                      st == determine_bid_status(i, pick[i])
                  IN [bid_id |-> i,
                      auction_id |-> bids[i].auction_id,
                      last_bid_amount |-> bids[i].amount,
                      current_highest_bid |-> st[2],
                      time_left_seconds |-> calculate_time_left(auc),
                      status |-> st[1],
                      auction_status |-> auc.status,
                      auction_end_time |-> auc.end_time]],
               total |-> Cardinality(mine)])
    /\ UNCHANGED <<now, items, auctions, bids, orders, payments, receipts,
                   shipments, inflight>>

\* --------------------------------------------------------------- orders
OrderIds == {1}

\* A variant of calculate_total that charges the normal price for every method.
calculate_total_normal_only(winning_bid_amount, shipping_method, shipping_cost_normal, shipping_cost_expedited) ==
    <<shipping_cost_normal, winning_bid_amount + shipping_cost_normal>>

\* PaymentService.calculate_total: (shipping_cost, total_amount).
calculate_total(winning_bid_amount, shipping_method, shipping_cost_normal, shipping_cost_expedited) ==
    LET shipping_cost == IF shipping_method = "EXPEDITED"
                         THEN shipping_cost_expedited
                         ELSE shipping_cost_normal
    IN <<shipping_cost, winning_bid_amount + shipping_cost>>

\* A variant of OrderRowAccepted for an orders table without the unique
\* constraint on auction_id.
OrderRowAccepted_no_unique(ords, row) ==
    row.total_amount = row.winning_bid_amount + row.shipping_cost

\* The constraints of the orders table: auction_id is unique, and
\* ck_total_amount demands total_amount = winning_bid_amount + shipping_cost.
OrderRowAccepted(ords, row) ==
    /\ \A k \in 1..Len(ords) : k # row.order_id => ords[k].auction_id # row.auction_id
    /\ row.total_amount = row.winning_bid_amount + row.shipping_cost

\* A variant of winning_bid that falls back to the auction's highest bid.
winning_bid_or_highest(auc, bs) ==
    IF auc.winning_bid_id \in 1..Len(bs) THEN auc.winning_bid_id
    ELSE highest_bid(bs, auc.item_id)

\* create_order's query for the bid the auction records as its winner
\* (NoBid when there is none).
winning_bid(auc, bs) ==
    IF auc.winning_bid_id \in 1..Len(bs) THEN auc.winning_bid_id ELSE NoBid

\* The body of create_order.  sords is the orders table as its "existing
\* order" query saw it; the INSERT is judged against the table as it is at the
\* commit.
create_order_run(u, a, method, addr, sords) ==
    /\ IF a \notin DOMAIN auctions
       THEN /\ resp' = Reply("create_order", u, "NotFound", NoBody)
            /\ UNCHANGED orders
       ELSE LET auc == auctions[a] IN
         IF auc.status # "ENDED"
         THEN /\ resp' = Reply("create_order", u, "InvalidState", NoBody)
              /\ UNCHANGED orders
         ELSE IF \E k \in 1..Len(sords) : sords[k].auction_id = a
         THEN /\ resp' = Reply("create_order", u, "Conflict", NoBody)
              /\ UNCHANGED orders
         ELSE IF address_owner[addr] # u
         THEN /\ resp' = Reply("create_order", u, "NotFound", [detail |-> "address"])
              /\ UNCHANGED orders
         ELSE IF winning_bid(auc, bids) = NoBid
         THEN /\ resp' = Reply("create_order", u, "WinningBidNotFound", NoBody)
              /\ UNCHANGED orders
         ELSE LET winning_bid_amount == bids[winning_bid(auc, bids)].amount
                  ct == calculate_total(winning_bid_amount, method,
                                        items[auc.item_id].shipping_price_normal,
                                        items[auc.item_id].shipping_price_expedited)
                  row == [order_id |-> Len(orders) + 1,
                          auction_id |-> a,
                          buyer_id |-> auc.winning_bidder_id,
                          item_id |-> auc.item_id,
                          winning_bid_amount |-> winning_bid_amount,
                          shipping_method |-> method,
                          shipping_cost |-> ct[1],
                          total_amount |-> ct[2],
                          shipping_address_id |-> addr,
                          status |-> "PENDING_PAYMENT"]
              IN IF OrderRowAccepted(orders, row)
                 THEN /\ orders' = Append(orders, row)
                      /\ resp' = Reply("create_order", u, "ok", row)
                 ELSE /\ resp' = Reply("create_order", u, "IntegrityError", NoBody)
                      /\ UNCHANGED orders

create_order(u, a, method, addr) ==
    /\ create_order_run(u, a, method, addr, orders)
    /\ UNCHANGED <<now, items, auctions, bids, payments, receipts, shipments, inflight>>

\* The status check of update_shipping_method (orders.py lines 195-199).  It is
\* indented under the "only buyer" branch, after that branch's raise, so no
\* execution reaches it: the check never rejects.
shipping_update_rejected(ord) == FALSE

update_shipping_method(u, o, method) ==
    /\ IF o \notin 1..Len(orders)
       THEN /\ resp' = Reply("update_shipping_method", u, "NotFound", NoBody)
            /\ UNCHANGED orders
       ELSE LET ord == orders[o] IN
         IF ord.buyer_id # u
         THEN /\ resp' = Reply("update_shipping_method", u, "Forbidden", NoBody)
              /\ UNCHANGED orders
         ELSE IF shipping_update_rejected(ord)
         THEN /\ resp' = Reply("update_shipping_method", u, "InvalidState", NoBody)
              /\ UNCHANGED orders
         ELSE LET ct == calculate_total(ord.winning_bid_amount, method,
                                        items[ord.item_id].shipping_price_normal,
                                        items[ord.item_id].shipping_price_expedited)
                  row == [ord EXCEPT !.shipping_method = method,
                                     !.shipping_cost = ct[1],
                                     !.total_amount = ct[2]]
              IN IF OrderRowAccepted(orders, row)
                 THEN /\ orders' = [orders EXCEPT ![o] = row]
                      /\ resp' = Reply("update_shipping_method", u, "ok", row)
                 ELSE /\ resp' = Reply("update_shipping_method", u, "IntegrityError", NoBody)
                      /\ UNCHANGED orders
    /\ UNCHANGED <<now, items, auctions, bids, payments, receipts, shipments, inflight>>

\* ------------------------------------------------------------- payment
\* card_number.startswith("4000")
should_fail(card) == SubSeq(card, 1, Len(DECLINE_PREFIX)) = DECLINE_PREFIX

PaymentsOf(pays, o) == {k \in 1..Len(pays) : pays[k].order_id = o}

\* A variant of PaymentRowAccepted for a payments table without the unique
\* constraint on order_id.
PaymentRowAccepted_no_unique(pays, row) == TRUE

\* The unique constraint on payments.order_id.
PaymentRowAccepted(pays, row) == PaymentsOf(pays, row.order_id) = {}

\* A variant of with_declined that leaves the order's status alone.
with_declined_untouched(ords, o) == ords

\* A declined payment marks the order FAILED, in the commit that stores the
\* FAILED payment.
with_declined(ords, o) == [ords EXCEPT ![o].status = "FAILED"]

\* PaymentService.process_payment for the order object so the session holds
\* (its total_amount is the loaded one), against the tables ords and pays;
\* seen is the payments table as the "existing payment" query saw it.
\* kind: "captured" (success), "declined", or "IntegrityError" (the INSERT of a
\* second payment row for the order is refused at db.flush()).
process_payment_run(so, card, ords, seen, pays) ==
    LET o == so.order_id
        existing == PaymentsOf(seen, o)
        row == [payment_id |-> Len(pays) + 1,
                order_id |-> o,
                amount |-> so.total_amount,
                status |-> IF should_fail(card) THEN "FAILED" ELSE "CAPTURED",
                processor |-> "DUMMY",
                processor_txn_id |-> IF should_fail(card) THEN "null" ELSE "txn",
                failure_reason |-> IF should_fail(card)
                                   THEN "Card declined by payment processor"
                                   ELSE "null"]
    IN IF \E k \in existing : seen[k].status = "CAPTURED"
       THEN [kind |-> "captured", orders |-> ords, payments |-> pays,
             payment_id |-> CHOOSE k \in existing : seen[k].status = "CAPTURED"]
       ELSE IF ~PaymentRowAccepted(pays, row)
       THEN [kind |-> "IntegrityError", orders |-> ords, payments |-> pays,
             payment_id |-> 0]
       ELSE IF should_fail(card)
       THEN [kind |-> "declined",
             orders |-> with_declined(ords, o),
             payments |-> Append(pays, row),
             payment_id |-> row.payment_id]
       ELSE [kind |-> "captured",
             orders |-> [ords EXCEPT ![o].status = "PAID"],
             payments |-> Append(pays, row),
             payment_id |-> row.payment_id]

\* process_payment when nothing is committed between its query and its insert.
process_payment(so, card, ords, pays) == process_payment_run(so, card, ords, pays, pays)

\* A variant of pay_order_process without the "already paid" return.
pay_order_process_no_idempotency(u, so, sauc, card, ords, pays) ==
    LET keep(kind) == [kind |-> kind, orders |-> ords, payments |-> pays, payment_id |-> 0]
    IN IF so.buyer_id # u THEN keep("Forbidden")
       ELSE IF sauc.status # "ENDED" THEN keep("InvalidState")
       ELSE IF sauc.winning_bidder_id # u THEN keep("Conflict")
       ELSE IF so.status \notin {"PENDING_PAYMENT", "FAILED"} THEN keep("InvalidState")
       ELSE process_payment(so, card, ords, pays)

\* pay_order from its authorization checks to the return of process_payment
\* (orders.py lines 243-298).  so and sauc are the order and auction rows the
\* session loaded; seen is the payments table as process_payment's query saw it.
pay_order_process_run(u, so, sauc, card, ords, seen, pays) ==
    LET keep(kind) == [kind |-> kind, orders |-> ords, payments |-> pays, payment_id |-> 0]
        captured == {k \in PaymentsOf(pays, so.order_id) : pays[k].status = "CAPTURED"}
    IN IF so.buyer_id # u THEN keep("Forbidden")
       ELSE IF sauc.status # "ENDED" THEN keep("InvalidState")
       ELSE IF sauc.winning_bidder_id # u THEN keep("Conflict")
       ELSE IF so.status = "PAID" /\ captured # {}
       THEN [kind |-> "already", orders |-> ords, payments |-> pays,
             payment_id |-> CHOOSE k \in captured : TRUE]
       ELSE IF so.status \notin {"PENDING_PAYMENT", "FAILED"} THEN keep("InvalidState")
       ELSE process_payment_run(so, card, ords, seen, pays)

\* A variant of pay_order_process without the buyer and winner checks.
pay_order_process_no_authz(u, so, sauc, card, ords, pays) ==
    LET keep(kind) == [kind |-> kind, orders |-> ords, payments |-> pays, payment_id |-> 0]
        captured == {k \in PaymentsOf(pays, so.order_id) : pays[k].status = "CAPTURED"}
    IN IF sauc.status # "ENDED" THEN keep("InvalidState")
       ELSE IF so.status = "PAID" /\ captured # {}
       THEN [kind |-> "already", orders |-> ords, payments |-> pays,
             payment_id |-> CHOOSE k \in captured : TRUE]
       ELSE IF so.status \notin {"PENDING_PAYMENT", "FAILED"} THEN keep("InvalidState")
       ELSE process_payment(so, card, ords, pays)

\* pay_order's checks and payment when nothing is committed in between.
pay_order_process(u, so, sauc, card, ords, pays) ==
    pay_order_process_run(u, so, sauc, card, ords, pays, pays)

\* A variant of with_receipt that records the bid amount without the shipping cost.
with_receipt_bid_amount(rcps, ord) ==
    IF \E k \in 1..Len(rcps) : rcps[k].order_id = ord.order_id THEN rcps
    ELSE Append(rcps, [order_id |-> ord.order_id,
                       receipt_number |-> <<"RCP", now, ord.order_id>>,
                       total_paid |-> ord.winning_bid_amount])

\* The receipt and shipment pay_order adds after a successful process_payment
\* (orders.py lines 300-323), each only if the order has none yet.
with_receipt(rcps, ord) ==
    IF \E k \in 1..Len(rcps) : rcps[k].order_id = ord.order_id THEN rcps
    ELSE Append(rcps, [order_id |-> ord.order_id,
                       receipt_number |-> <<"RCP", now, ord.order_id>>,
                       total_paid |-> ord.total_amount])

with_shipment(shps, ord) ==
    IF \E k \in 1..Len(shps) : shps[k].order_id = ord.order_id THEN shps
    ELSE Append(shps, [order_id |-> ord.order_id,
                       estimated_days |-> items[ord.item_id].shipping_time_days,
                       status |-> "PENDING"])

PayReply(u, r, ord) ==
    IF r.kind \in {"captured", "already"}
    THEN Reply("pay_order", u, "ok",
               [order_id |-> ord.order_id,
                payment_id |-> r.payment_id,
                status |-> r.payments[r.payment_id].status,
                message |-> IF r.kind = "already"
                            THEN "Payment already processed successfully"
                            ELSE "Payment processed successfully",
                total_amount |-> ord.total_amount])
    ELSE Reply("pay_order", u,
               IF r.kind = "declined" THEN "PaymentDeclined" ELSE r.kind,
               [order_id |-> ord.order_id])

pay_order(u, o, card) ==
    /\ IF o \notin 1..Len(orders)
       THEN /\ resp' = Reply("pay_order", u, "NotFound", NoBody)
            /\ UNCHANGED <<orders, payments, receipts, shipments>>
       ELSE LET r == pay_order_process(u, orders[o], auctions[orders[o].auction_id],
                                       card, orders, payments)
            IN /\ orders' = r.orders
               /\ payments' = r.payments
               /\ receipts' = IF r.kind = "captured"
                              THEN with_receipt(receipts, r.orders[o]) ELSE receipts
               /\ shipments' = IF r.kind = "captured"
                               THEN with_shipment(shipments, r.orders[o]) ELSE shipments
               /\ resp' = PayReply(u, r, r.orders[o])
    /\ UNCHANGED <<now, items, auctions, bids, inflight>>

\* ------------------------------------------------- interleaved requests
\* Requests are interchangeable: the second is used only while the first is busy.
Free(p) == inflight[p].pc = "idle" /\ (p = "r2" => inflight["r1"].pc # "idle")

\* place_bid's query (auction.py lines 321-324): the session loads the auction
\* row with its bids.
place_bid_load(p, u, a, amt) ==
    /\ Free(p)
    /\ inflight' = [inflight EXCEPT ![p] =
                      [pc |-> "bid_loaded", u |-> u, a |-> a, amt |-> amt,
                       sa |-> auctions, sb |-> bids]]
    /\ UNCHANGED <<now, items, auctions, bids, orders, payments, receipts,
                   shipments, resp>>

\* The rest of place_bid (auction.py lines 326-406) on the loaded rows.
place_bid_commit(p) ==
    /\ inflight[p].pc = "bid_loaded"
    /\ place_bid_run(inflight[p].u, inflight[p].a, inflight[p].amt,
                     inflight[p].sa, inflight[p].sb)
    /\ inflight' = [inflight EXCEPT ![p] = Idle]
    /\ UNCHANGED <<now, items, orders, payments, receipts, shipments>>

\* create_auction up to its "existing auction" query (auction.py lines 63-78).
create_auction_load(p, u, auction_data) ==
    /\ Free(p)
    /\ inflight' = [inflight EXCEPT ![p] =
                      [pc |-> "auction_loaded", u |-> u, auction_data |-> auction_data,
                       sa |-> auctions]]
    /\ UNCHANGED <<now, items, auctions, bids, orders, payments, receipts,
                   shipments, resp>>

\* The rest of create_auction (auction.py lines 79-111) on what the query saw.
create_auction_commit(p) ==
    /\ inflight[p].pc = "auction_loaded"
    /\ create_auction_run(inflight[p].u, inflight[p].auction_data, inflight[p].sa)
    /\ inflight' = [inflight EXCEPT ![p] = Idle]
    /\ UNCHANGED <<now, items, bids, orders, payments, receipts, shipments>>

\* create_order up to its "existing order" query (orders.py lines 50-70).
create_order_load(p, u, a, method, addr) ==
    /\ Free(p)
    /\ inflight' = [inflight EXCEPT ![p] =
                      [pc |-> "order_loaded", u |-> u, a |-> a, method |-> method,
                       addr |-> addr, so |-> orders]]
    /\ UNCHANGED <<now, items, auctions, bids, orders, payments, receipts,
                   shipments, resp>>

\* The rest of create_order (orders.py lines 72-128), ending with its commit.
create_order_commit(p) ==
    /\ inflight[p].pc = "order_loaded"
    /\ create_order_run(inflight[p].u, inflight[p].a, inflight[p].method,
                        inflight[p].addr, inflight[p].so)
    /\ inflight' = [inflight EXCEPT ![p] = Idle]
    /\ UNCHANGED <<now, items, auctions, bids, payments, receipts, shipments>>

\* pay_order's query (orders.py lines 232-235): the order with its auction.
pay_load(p, u, o, card) ==
    /\ Free(p)
    /\ IF o \notin 1..Len(orders)
       THEN /\ resp' = Reply("pay_order", u, "NotFound", NoBody)
            /\ UNCHANGED inflight
       ELSE /\ inflight' = [inflight EXCEPT ![p] =
                      [pc |-> "pay_loaded", u |-> u, o |-> o, card |-> card,
                       so |-> orders[o], sauc |-> auctions[orders[o].auction_id],
                       sp |-> payments]]
            /\ UNCHANGED resp
    /\ UNCHANGED <<now, items, auctions, bids, orders, payments, receipts, shipments>>

\* pay_order up to the commit inside process_payment (orders.py lines 243-298).
\* The "existing payment" query ran at some moment since the request's first
\* query: it saw the payments table as it was then (sp) or as it is now.
pay_process(p) ==
    /\ inflight[p].pc = "pay_loaded"
    /\ \E seen \in {inflight[p].sp, payments} :
       LET rq == inflight[p]
           r == pay_order_process_run(rq.u, rq.so, rq.sauc, rq.card, orders, seen, payments)
       IN /\ orders' = r.orders
          /\ payments' = r.payments
          /\ IF r.kind = "captured"
             THEN /\ inflight' = [inflight EXCEPT ![p] =
                         [pc |-> "pay_captured", u |-> rq.u, o |-> rq.o, r |-> r]]
                  /\ UNCHANGED resp
             ELSE /\ inflight' = [inflight EXCEPT ![p] = Idle]
                  /\ resp' = PayReply(rq.u, r, r.orders[rq.o])
    /\ UNCHANGED <<now, items, auctions, bids, receipts, shipments>>

\* The receipt, the shipment and the second commit (orders.py lines 300-332).
pay_finish(p) ==
    /\ inflight[p].pc = "pay_captured"
    /\ LET rq == inflight[p] IN
       /\ receipts' = with_receipt(receipts, orders[rq.o])
       /\ shipments' = with_shipment(shipments, orders[rq.o])
       /\ resp' = PayReply(rq.u, [rq.r EXCEPT !.payments = payments], orders[rq.o])
    /\ inflight' = [inflight EXCEPT ![p] = Idle]
    /\ UNCHANGED <<now, items, auctions, bids, orders, payments>>

\* The request dies after the first commit (the worker is killed, the database
\* connection drops, a flush raises): nothing of the second commit is applied.
pay_abort(p) ==
    /\ inflight[p].pc = "pay_captured"
    /\ inflight' = [inflight EXCEPT ![p] = Idle]
    /\ resp' = Reply("pay_order", inflight[p].u, "ServerError", NoBody)
    /\ UNCHANGED <<now, items, auctions, bids, orders, payments, receipts, shipments>>

\* ------------------------------------------------------------ the system
\* Once the item has its auction every create_auction body gets the same
\* answer, so one body stands for all of them.
CreateInputs(S) == IF auctions = EmptyTable THEN S ELSE {CHOOSE d \in S : TRUE}

AuctionRequests ==
    \/ \E u \in Users, auction_data \in CreateInputs(AuctionCreate) :
          create_auction(u, auction_data)
    \/ \E u \in Users, a \in Items, amt \in Amounts : place_bid(u, a, amt)
    \/ \E u \in Users, a \in Items : end_auction(u, a)
    \/ \E a \in Items : get_auction_status(a)

Reads ==
    \/ \E f \in {"ACTIVE", "ANY"} : search_auctions(f)
    \/ \E i \in Items : get_auction_item_detail(i)
    \/ \E a \in Items : get_auction(a)
    \/ \E u \in Users : get_my_bids(u)

\* One request at a time: the auction ledger, bidding, closing and the reads.
Next ==
    \/ Tick
    \/ AuctionRequests
    \/ Reads

Spec == Init /\ [][Next]_vars

\* The auctions the bidding runs open with: a positive increment, any times.
BidAuctionCreate == {d \in AuctionCreate : d.min_increment > 0}

\* One request at a time: an auction, the bids on it and its closing.
NextBid ==
    \/ Tick
    \/ \E u \in Users, auction_data \in CreateInputs(BidAuctionCreate) :
          create_auction(u, auction_data)
    \/ \E u \in Users, a \in Items, amt \in Amounts : place_bid(u, a, amt)
    \/ \E u \in Users, a \in Items : end_auction(u, a)
    \/ \E a \in Items : get_auction_status(a)

SpecBid == Init /\ [][NextBid]_vars

\* Bidding with positive increments, and the reads of an auction's status.
NextActivate ==
    \/ NextBid
    \/ \E a \in Items : get_auction(a)

SpecActivate == Init /\ [][NextActivate]_vars

\* The auctions the closing runs open with: started at once, with an increment
\* that admits equal amounts.
CloseAuctionCreate ==
    {d \in AuctionCreate : /\ d.min_increment <= 0
                           /\ d.start_time = 0
                           /\ d.status = "SCHEDULED"}

\* The amounts bid in the closing runs (the starting price is 1).
CloseAmounts == {2, 3}

\* One request at a time: an auction whose bids can tie, and its closing.
NextClose ==
    \/ Tick
    \/ \E u \in Users, auction_data \in CreateInputs(CloseAuctionCreate) :
          create_auction(u, auction_data)
    \/ \E u \in Users, a \in Items, amt \in CloseAmounts : place_bid(u, a, amt)
    \/ \E u \in Users, a \in Items : end_auction(u, a)
    \/ \E a \in Items : get_auction_status(a)

SpecClose == Init /\ [][NextClose]_vars

\* One request at a time: an auction whose bids can tie, its closing, and the reads.
NextLeader ==
    \/ NextClose
    \/ Reads

SpecLeader == Init /\ [][NextLeader]_vars

\* The auctions the settlement runs open with: started at once, increment 1.
SettleAuctionCreate ==
    {d \in AuctionCreate : /\ d.min_increment = 1
                           /\ d.start_time = 0
                           /\ d.end_time = 1
                           /\ d.status = "SCHEDULED"}

\* The amounts bid in the settlement runs (the starting price is 1).
SettleAmounts == {2, 3}

SettleAuctionRequests ==
    \/ \E u \in Users, auction_data \in CreateInputs(SettleAuctionCreate) :
          create_auction(u, auction_data)
    \/ \E u \in Users, a \in Items, amt \in SettleAmounts : place_bid(u, a, amt)
    \/ \E u \in Users, a \in Items : end_auction(u, a)
    \/ \E a \in Items : get_auction_status(a)

OrderRequests ==
    \/ \E u \in Users, a \in Items, m \in ShippingMethod, ad \in Addresses :
          create_order(u, a, m, ad)
    \/ \E u \in Users, o \in OrderIds, m \in ShippingMethod : update_shipping_method(u, o, m)

\* One request at a time: an auction, its closing, and the settlement of its order.
NextSettle ==
    \/ Tick
    \/ SettleAuctionRequests
    \/ OrderRequests
    \/ \E u \in Users, o \in OrderIds, card \in Cards : pay_order(u, o, card)

SpecSettle == Init /\ [][NextSettle]_vars

\* An auction running to its end_time while status requests keep arriving:
\* every client polls get_auction_status, so the request is never withheld
\* for ever.
NextExpiry ==
    \/ Tick
    \/ SettleAuctionRequests

SpecExpiry ==
    /\ Init
    /\ [][NextExpiry]_vars
    /\ WF_vars(\E a \in Items : get_auction_status(a))

\* The settlement while the seller edits the item's shipping prices.
NextCatalogue ==
    \/ NextSettle
    \/ \E i \in Items, item_update \in ShipPrices : update_catalogue_item(i, item_update)

SpecCatalogue == Init /\ [][NextCatalogue]_vars

\* The callers and cards of the interleaved requests.
Bidders == Users \ {Seller}
ConcCards == {<<4, 0, 0, 0, 1>>, <<4, 1, 1, 1, 1>>}

\* Bidding with interleaved requests: each place_bid is its query, then the rest.
\* The clock stands still (the auction is closed by its seller).
NextBidConc ==
    \/ \E u \in Users, auction_data \in CreateInputs(SettleAuctionCreate) :
          create_auction(u, auction_data)
    \/ \E p \in Procs, u \in Bidders, a \in Items, amt \in SettleAmounts :
          place_bid_load(p, u, a, amt)
    \/ \E p \in Procs : place_bid_commit(p)
    \/ \E u \in Users, a \in Items : end_auction(u, a)
    \/ \E a \in Items : get_auction_status(a)

SpecBidConc == Init /\ [][NextBidConc]_vars

\* Payment with interleaved requests: each pay_order is its query, the capture
\* (first commit), then the receipt and shipment (second commit); a request can
\* die between the two commits.
NextPayConc ==
    \/ \E u \in Users, auction_data \in CreateInputs(SettleAuctionCreate) :
          create_auction(u, auction_data)
    \/ \E u \in Users, a \in Items : place_bid(u, a, 2)
    \/ \E u \in Users, a \in Items : end_auction(u, a)
    \/ \E u \in Users, a \in Items, ad \in Addresses : create_order(u, a, "NORMAL", ad)
    \/ \E p \in Procs, u \in Bidders, o \in OrderIds, card \in ConcCards :
          pay_load(p, u, o, card)
    \/ \E p \in Procs : pay_process(p)
    \/ \E p \in Procs : pay_finish(p)
    \/ \E p \in Procs : pay_abort(p)

SpecPayConc == Init /\ [][NextPayConc]_vars

\* Order creation with interleaved requests: each create_order is its queries,
\* then the insert and commit.  The clock stands still.
NextOrderConc ==
    \/ \E u \in Users, auction_data \in CreateInputs(SettleAuctionCreate) :
          create_auction(u, auction_data)
    \/ \E u \in Users, a \in Items : place_bid(u, a, 2)
    \/ \E u \in Users, a \in Items : end_auction(u, a)
    \/ \E p \in Procs, u \in Bidders, a \in Items, m \in ShippingMethod, ad \in Addresses :
          create_order_load(p, u, a, m, ad)
    \/ \E p \in Procs : create_order_commit(p)

SpecOrderConc == Init /\ [][NextOrderConc]_vars

\* Auction creation with interleaved requests: each create_auction is its
\* queries, then the insert and commit.  The clock stands still.
ConcAuctionCreate ==
    {d \in BidAuctionCreate : d.start_time = 0 /\ d.status = "SCHEDULED"}

NextAuctionConc ==
    \/ \E p \in Procs, u \in Users, auction_data \in ConcAuctionCreate :
          create_auction_load(p, u, auction_data)
    \/ \E p \in Procs : create_auction_commit(p)
    \/ \E u \in Users, a \in Items : place_bid(u, a, 2)
    \/ \E u \in Users, a \in Items : end_auction(u, a)

SpecAuctionConc == Init /\ [][NextAuctionConc]_vars

\* ================================================================ claims
\* The price a bid at position i of the table had to beat: the starting price
\* if no bid of its auction precedes it, else the highest amount before it.
PriceBefore(i) ==
    LET a == bids[i].auction_id
        before == {bids[j].amount : j \in {k \in BidIdsOf(bids, a) : k < i}}
    IN IF before = {} THEN auctions[a].starting_price ELSE Max(before)

AdmittedAboveMinimum ==
    \A i \in 1..Len(bids) :
        bids[i].amount >= PriceBefore(i) + auctions[bids[i].auction_id].min_increment

BelowMinimumRejected ==
    \A u \in Users, a \in Items, amt \in Amounts :
        ( /\ place_bid(u, a, amt)
          /\ a \in DOMAIN auctions
          /\ auctions'[a].status = "ACTIVE"
          /\ auctions[a].start_time <= now
          /\ now < auctions[a].end_time
          /\ amt < get_current_bidding_price(auctions[a], bids, a) + auctions[a].min_increment )
        => (resp'.result = "BidTooLow" /\ bids' = bids)

\* C1: with requests executed one at a time, every admitted bid is at least the
\* current price (starting price without bids, else the highest amount so far)
\* plus min_increment, and a place_bid below that minimum on a biddable auction
\* is answered BidTooLow and records nothing.
C1_AdmissionMinimum == []AdmittedAboveMinimum /\ [][BelowMinimumRejected]_vars

C1_Witness ==
    /\ resp.op = "place_bid"
    /\ resp.result = "BidTooLow"
    /\ Len(bids) >= 1

\* C2: whatever the interleaving of place_bid requests, every admitted bid
\* exceeds the highest bid admitted before it by at least min_increment.
C2_NoStaleAdmission ==
    \A a \in DOMAIN auctions : \A i \in BidIdsOf(bids, a) : \A j \in BidIdsOf(bids, a) :
        j < i => bids[i].amount >= bids[j].amount + auctions[a].min_increment

\* C3: a get_auction_status or place_bid request that finds an ACTIVE auction
\* past its end_time leaves it ENDED with the winner fields set to its highest
\* bid (both null without bids); the place_bid fails AuctionEnded, admitting nothing.
ExpiredActive(a) ==
    /\ a \in DOMAIN auctions
    /\ auctions[a].status = "ACTIVE"
    /\ auctions[a].end_time <= now

ClosedWithWinner(a) ==
    /\ auctions'[a].status = "ENDED"
    /\ IF BidIdsOf(bids, a) = {}
       THEN /\ auctions'[a].winning_bid_id = NoBid
            /\ auctions'[a].winning_bidder_id = NoUser
       ELSE /\ auctions'[a].winning_bid_id \in TopBids(bids, a)
            /\ auctions'[a].winning_bidder_id = bids[auctions'[a].winning_bid_id].bidder_id

C3_ExpiryCloses ==
    [][ \A a \in Items :
          /\ (get_auction_status(a) /\ ExpiredActive(a)) => ClosedWithWinner(a)
          /\ \A u \in Users, amt \in Amounts :
               (place_bid(u, a, amt) /\ ExpiredActive(a))
               => (ClosedWithWinner(a) /\ resp'.result = "AuctionEnded" /\ bids' = bids)
      ]_vars

\* C4: no read (get_auction, the item detail read, search_auctions,
\* get_auction_status, get_my_bids) reports status ACTIVE for an auction whose
\* end_time has passed.
ReportedStatuses ==
    IF resp.result # "ok" THEN {}
    ELSE IF resp.op \in {"get_auction", "get_auction_item_detail", "get_auction_status"}
    THEN {<<resp.body.auction_id, resp.body.status>>}
    ELSE IF resp.op = "search_auctions"
    THEN {<<it.auction_id, it.status>> : it \in resp.body.items}
    ELSE IF resp.op = "get_my_bids"
    THEN {<<resp.body.bids[k].auction_id, resp.body.bids[k].auction_status>> :
            k \in 1..Len(resp.body.bids)}
    ELSE {}

C4_NoActiveReadPastEnd ==
    \A r \in ReportedStatuses : ~(r[2] = "ACTIVE" /\ auctions[r[1]].end_time <= now)

\* C5: once an order's payment is CAPTURED, a further pay_order by the buyer,
\* with any card, answers success with that payment's id and changes nothing:
\* the order stays PAID with exactly one payment, one receipt and one shipment.
CountOf(table, o) == Cardinality({k \in 1..Len(table) : table[k].order_id = o})

C5_RepayIsNoOp ==
    [][ \A u \in Users, o \in OrderIds, card \in Cards :
          ( /\ pay_order(u, o, card)
            /\ o \in 1..Len(orders)
            /\ u = orders[o].buyer_id
            /\ \E k \in PaymentsOf(payments, o) : payments[k].status = "CAPTURED" )
          => ( /\ resp'.result = "ok"
               /\ resp'.body.payment_id \in PaymentsOf(payments, o)
               /\ payments[resp'.body.payment_id].status = "CAPTURED"
               /\ UNCHANGED <<orders, payments, receipts, shipments>>
               /\ orders'[o].status = "PAID"
               /\ CountOf(payments', o) = 1
               /\ CountOf(receipts', o) = 1
               /\ CountOf(shipments', o) = 1 )
      ]_vars

C5_Witness ==
    /\ resp.op = "pay_order"
    /\ resp.result = "ok"
    /\ resp.body.message = "Payment already processed successfully"

\* C6: in no committed state is an order's payment CAPTURED, or the order PAID,
\* while the order has no receipt or no shipment.
C6_CaptureAtomic ==
    \A o \in 1..Len(orders) :
        ( \/ orders[o].status = "PAID"
          \/ \E k \in PaymentsOf(payments, o) : payments[k].status = "CAPTURED" )
        => (CountOf(receipts, o) >= 1 /\ CountOf(shipments, o) >= 1)

\* C7: on an order left FAILED by a decline, a following pay_order by the buyer
\* with a card that does not start with 4000 succeeds: the payment is CAPTURED,
\* the order PAID, and one receipt and one shipment exist.
C7_RetryAfterDeclineSucceeds ==
    [][ \A u \in Users, o \in OrderIds, card \in Cards :
          ( /\ pay_order(u, o, card)
            /\ o \in 1..Len(orders)
            /\ orders[o].status = "FAILED"
            /\ u = orders[o].buyer_id
            /\ ~should_fail(card) )
          => ( /\ resp'.result = "ok"
               /\ orders'[o].status = "PAID"
               /\ \E k \in PaymentsOf(payments', o) : payments'[k].status = "CAPTURED"
               /\ CountOf(receipts', o) = 1
               /\ CountOf(shipments', o) = 1 )
      ]_vars

\* C8: pay_order by the buyer with a card starting with 4000 on an order in
\* PENDING_PAYMENT or FAILED fails with a payment-declined error, leaves the
\* order FAILED and its payment FAILED with a failure_reason and no processor
\* transaction id, and creates no receipt and no shipment.
C8_DeclineIsDeterministic ==
    [][ \A u \in Users, o \in OrderIds, card \in Cards :
          ( /\ pay_order(u, o, card)
            /\ o \in 1..Len(orders)
            /\ orders[o].status \in {"PENDING_PAYMENT", "FAILED"}
            /\ u = orders[o].buyer_id
            /\ should_fail(card) )
          => ( /\ resp'.result = "PaymentDeclined"
               /\ orders'[o].status = "FAILED"
               /\ \A k \in PaymentsOf(payments', o) :
                    /\ payments'[k].status = "FAILED"
                    /\ payments'[k].failure_reason # "null"
                    /\ payments'[k].processor_txn_id = "null"
               /\ CountOf(payments', o) >= 1
               /\ CountOf(receipts', o) = 0
               /\ CountOf(shipments', o) = 0 )
      ]_vars

\* C9: update_shipping_method by the buyer on an order whose status is not
\* PENDING_PAYMENT fails with InvalidState and leaves the order's
\* shipping_method, shipping_cost and total_amount as they were.
C9_ShippingFrozenAfterPayment ==
    [][ \A u \in Users, o \in OrderIds, m \in ShippingMethod :
          ( /\ update_shipping_method(u, o, m)
            /\ o \in 1..Len(orders)
            /\ u = orders[o].buyer_id
            /\ orders[o].status # "PENDING_PAYMENT" )
          => (resp'.result = "InvalidState" /\ orders' = orders)
      ]_vars

\* C10: every order has total_amount = winning_bid_amount + shipping_cost in
\* every state, and right after create_order and after every
\* update_shipping_method its shipping_cost is the item's expedited price if
\* the method is EXPEDITED and the item's normal price otherwise.
TotalIdentity ==
    \A o \in 1..Len(orders) :
        orders[o].total_amount = orders[o].winning_bid_amount + orders[o].shipping_cost

ShippingCostRule ==
    (resp'.op \in {"create_order", "update_shipping_method"} /\ resp'.result = "ok")
    => LET o == resp'.body.order_id
           it == items[orders'[o].item_id]
       IN /\ orders'[o] = resp'.body
          /\ orders'[o].shipping_cost =
                IF orders'[o].shipping_method = "EXPEDITED"
                THEN it.shipping_price_expedited
                ELSE it.shipping_price_normal

C10_OrderTotal == []TotalIdentity /\ [][ShippingCostRule]_vars

C10_Witness ==
    /\ resp.op = "update_shipping_method"
    /\ resp.result = "ok"
    /\ resp.body.shipping_method = "EXPEDITED"
    /\ resp.body.total_amount = resp.body.winning_bid_amount + 3

\* C11: in every auction, whatever min_increment it was created with, the
\* admitted bid amounts in admission order are strictly increasing, and each
\* exceeds the amount admitted just before it by at least min_increment.
C11_MonotonicPrice ==
    \A a \in DOMAIN auctions : \A i \in BidIdsOf(bids, a) : \A j \in BidIdsOf(bids, a) :
        /\ i < j => bids[i].amount < bids[j].amount
        /\ (i < j /\ ~\E k \in BidIdsOf(bids, a) : i < k /\ k < j)
              => bids[j].amount >= bids[i].amount + auctions[a].min_increment

\* C12: a place_bid by the seller of the auctioned item is rejected whatever the
\* amount and the auction's state, and no auction ever holds a bid whose bidder
\* is the seller of its item.
NoSellerBid ==
    \A i \in 1..Len(bids) :
        bids[i].bidder_id # items[auctions[bids[i].auction_id].item_id].seller_id

SellerBidRejected ==
    \A u \in Users, a \in Items, amt \in Amounts :
        ( /\ place_bid(u, a, amt)
          /\ a \in DOMAIN auctions
          /\ u = items[auctions[a].item_id].seller_id )
        => (resp'.result # "ok" /\ bids' = bids)

C12_NoSelfBid == []NoSellerBid /\ [][SellerBidRejected]_vars

C12_Witness ==
    /\ resp.op = "place_bid"
    /\ resp.caller = Seller
    /\ resp.result = "SelfBid"
    /\ Len(bids) >= 1

\* C13: end_auction on an auction that is ENDED already changes no stored state
\* and returns the winning_bid_id, winning_bidder_id and final_price that the
\* request which closed the auction returned: the stored winner with that bid's
\* amount (the starting price without bids), not a winner determined again.
ClosedByCloser(a) ==
    auctions[a].winning_bid_id # NoBid \/ BidIdsOf(bids, a) = {}

ClosingPrice(a) ==
    IF auctions[a].winning_bid_id # NoBid
    THEN bids[auctions[a].winning_bid_id].amount
    ELSE auctions[a].starting_price

IsClosingResponse(r) ==
    /\ r.op = "end_auction"
    /\ r.result = "ok"
    /\ r.body.message # "Auction has already ended"

C13_IdempotentClose ==
    [][ \A u \in Users, a \in Items :
          ( /\ end_auction(u, a)
            /\ a \in DOMAIN auctions
            /\ auctions[a].status = "ENDED"
            /\ u = items[auctions[a].item_id].seller_id )
          => ( /\ resp'.result = "ok"
               /\ UNCHANGED <<auctions, bids, orders, payments, receipts, shipments>>
               /\ ClosedByCloser(a) =>
                    /\ resp'.body.winning_bid_id = auctions[a].winning_bid_id
                    /\ resp'.body.winning_bidder_id = auctions[a].winning_bidder_id
                    /\ resp'.body.final_price = ClosingPrice(a)
               /\ IsClosingResponse(resp) =>
                    /\ resp'.body.winning_bid_id = resp.body.winning_bid_id
                    /\ resp'.body.winning_bidder_id = resp.body.winning_bidder_id
                    /\ resp'.body.final_price = resp.body.final_price )
      ]_vars

C13_Witness ==
    /\ resp.op = "end_auction"
    /\ resp.result = "ok"
    /\ resp.body.message = "Auction has already ended"
    /\ resp.body.winning_bid_id # NoBid
    /\ \E a \in DOMAIN auctions :
          /\ Cardinality(TopBids(bids, a)) >= 2
          /\ resp.body.winning_bid_id # highest_bid(bids, a)

\* C14: every response of end_auction and of get_auction_status, for a first or
\* a repeated call, has can_pay true exactly when the auction has a recorded
\* winning bid (the winning_bid_id it reports is set).
C14_CanPayIffWinner ==
    (resp.op \in {"end_auction", "get_auction_status"} /\ resp.result = "ok")
    => (resp.body.can_pay <=> resp.body.winning_bid_id # NoBid)

\* C15: ENDED and CANCELLED are terminal: no request changes the status of an
\* auction that is ENDED or CANCELLED.
C15_TerminalStates ==
    [][ \A a \in DOMAIN auctions :
          auctions[a].status \in {"ENDED", "CANCELLED"}
          => (a \in DOMAIN auctions' /\ auctions'[a].status = auctions[a].status)
      ]_vars

\* C16: whatever the sequence or interleaving of create_order requests, an
\* auction has at most one order; a create_order whose query finds an order
\* of the auction fails with Conflict, and no failing create_order touches the
\* orders table.  (A request whose query ran before the other request's commit
\* is refused by the unique constraint on orders.auction_id instead.)
AtMostOneOrder ==
    \A k \in 1..Len(orders) : \A l \in 1..Len(orders) :
        orders[k].auction_id = orders[l].auction_id => k = l

ConflictOnExistingOrder ==
    \A p \in Procs :
        (create_order_commit(p) /\ inflight[p].pc = "order_loaded")
        => /\ (\E k \in 1..Len(inflight[p].so) : inflight[p].so[k].auction_id = inflight[p].a)
                => resp'.result = "Conflict"
           /\ resp'.result # "ok" => orders' = orders
           /\ \A k \in 1..Len(orders) : orders'[k] = orders[k]

C16_OneOrderPerAuction == []AtMostOneOrder /\ [][ConflictOnExistingOrder]_vars

C16_Witness ==
    /\ resp.op = "create_order"
    /\ resp.result = "IntegrityError"
    /\ Len(orders) = 1

\* C17: create_order succeeds only for the auction's winning bidder: a call by
\* any other user fails and creates no order.
C17_OnlyWinnerCreatesOrder ==
    [][ \A u \in Users, a \in Items, m \in ShippingMethod, ad \in Addresses :
          ( /\ create_order(u, a, m, ad)
            /\ a \in DOMAIN auctions
            /\ u # auctions[a].winning_bidder_id )
          => (resp'.result # "ok" /\ orders' = orders)
      ]_vars

\* C18: every order's shipping address belongs to the order's buyer, and a
\* create_order (on an ENDED auction with a winner and no order yet) with an
\* address the buyer does not own fails with NotFound and creates no order.
AddressBelongsToBuyer ==
    \A o \in 1..Len(orders) :
        address_owner[orders[o].shipping_address_id] = orders[o].buyer_id

ForeignAddressRejected ==
    \A u \in Users, a \in Items, m \in ShippingMethod, ad \in Addresses :
        ( /\ create_order(u, a, m, ad)
          /\ a \in DOMAIN auctions
          /\ auctions[a].status = "ENDED"
          /\ auctions[a].winning_bidder_id # NoUser
          /\ ~\E k \in 1..Len(orders) : orders[k].auction_id = a
          /\ address_owner[ad] # auctions[a].winning_bidder_id )
        => (resp'.result = "NotFound" /\ orders' = orders)

C18_AddressOwnedByBuyer == []AddressBelongsToBuyer /\ [][ForeignAddressRejected]_vars

\* C19: whatever the interleaving of place_bid with end_auction or
\* get_auction_status on an auction, no bid is admitted once the auction is
\* ENDED, and the recorded winning bid of an ENDED auction has the maximum
\* amount among all the bids the auction holds.
C19_BidCloseSerialized ==
    [][ \A a \in DOMAIN auctions :
          /\ auctions[a].status = "ENDED"
                => BidIdsOf(bids', a) = BidIdsOf(bids, a)
          /\ (auctions'[a].status = "ENDED" /\ BidIdsOf(bids', a) # {})
                => auctions'[a].winning_bid_id \in TopBids(bids', a)
      ]_vars

\* C20: when pay requests for one order interleave, the order never has more
\* than one payment, one receipt or one shipment, and its status agrees with
\* its payment: never PAID with a FAILED payment, never FAILED with a CAPTURED
\* payment, and PAID or FAILED only with a payment.
C20_OnePaymentTakesEffect ==
    \A o \in 1..Len(orders) :
        /\ CountOf(payments, o) <= 1
        /\ CountOf(receipts, o) <= 1
        /\ CountOf(shipments, o) <= 1
        /\ \A k \in PaymentsOf(payments, o) :
              /\ payments[k].status = "CAPTURED" => orders[o].status = "PAID"
              /\ payments[k].status = "FAILED" => orders[o].status = "FAILED"
        /\ orders[o].status \in {"PAID", "FAILED"} => CountOf(payments, o) = 1

\* Two requests loaded the order before either paid; one has paid since and
\* the other has been answered.
C20_Witness ==
    /\ Len(payments) = 1
    /\ inflight["r1"].pc = "idle"
    /\ inflight["r2"].pc = "idle"
    /\ resp.op = "pay_order"
    /\ resp.result = "IntegrityError"
    /\ payments[1].status = "CAPTURED"

\* C21: after any sequence of pay attempts an order has at most one payment
\* row, and after each attempt by the buyer on an unpaid order that row holds
\* the attempt's state: CAPTURED with a transaction id and no failure_reason
\* for a card that passes, FAILED with a failure_reason and no transaction id
\* for a card that is declined.
AtMostOnePayment ==
    \A o \in 1..Len(orders) : CountOf(payments, o) <= 1

LatestAttemptRecorded ==
    \A u \in Users, o \in OrderIds, card \in Cards :
        ( /\ pay_order(u, o, card)
          /\ o \in 1..Len(orders)
          /\ u = orders[o].buyer_id
          /\ orders[o].status \in {"PENDING_PAYMENT", "FAILED"} )
        => \E k \in PaymentsOf(payments', o) :
             /\ payments'[k].amount = orders[o].total_amount
             /\ IF should_fail(card)
                THEN /\ payments'[k].status = "FAILED"
                     /\ payments'[k].failure_reason # "null"
                     /\ payments'[k].processor_txn_id = "null"
                ELSE /\ payments'[k].status = "CAPTURED"
                     /\ payments'[k].failure_reason = "null"
                     /\ payments'[k].processor_txn_id # "null"

C21_OnePaymentLatestState == []AtMostOnePayment /\ [][LatestAttemptRecorded]_vars

\* C22: pay_order by a caller who is not the order's buyer fails with
\* Forbidden, and by the buyer when the auction row names another winning
\* bidder with Conflict; neither changes an order, payment, receipt or shipment.
NonBuyerForbidden ==
    \A u \in Users, o \in OrderIds, card \in Cards :
        ( /\ pay_order(u, o, card)
          /\ o \in 1..Len(orders)
          /\ u # orders[o].buyer_id )
        => ( /\ resp'.result = "Forbidden"
             /\ UNCHANGED <<orders, payments, receipts, shipments>> )

NonWinnerConflictStep ==
    \A u \in Users, o \in OrderIds, card \in Cards :
        ( /\ pay_order(u, o, card)
          /\ o \in 1..Len(orders)
          /\ u = orders[o].buyer_id
          /\ u # auctions[orders[o].auction_id].winning_bidder_id )
        => ( /\ resp'.result = "Conflict"
             /\ UNCHANGED <<orders, payments, receipts, shipments>> )

\* The winner check on every auction row the request could have loaded: the
\* order's ENDED auction naming any winner other than the caller.
NonWinnerConflict ==
    \A o \in 1..Len(orders), w \in Users \cup {NoUser}, card \in Cards :
        LET u == orders[o].buyer_id
            sauc == [auctions[orders[o].auction_id] EXCEPT !.status = "ENDED",
                                                           !.winning_bidder_id = w]
            r == pay_order_process(u, orders[o], sauc, card, orders, payments)
        IN w # u => (r.kind = "Conflict" /\ r.orders = orders /\ r.payments = payments)

C22_PayAuthorization ==
    []NonWinnerConflict /\ [][NonBuyerForbidden /\ NonWinnerConflictStep]_vars

C22_Witness ==
    /\ resp.op = "pay_order"
    /\ resp.result = "Forbidden"
    /\ Len(orders) = 1
    /\ resp.caller # orders[1].buyer_id
    /\ orders[1].status = "PENDING_PAYMENT"

\* C23: pay_order by the buyer with a card that does not start with 4000 on a
\* PENDING_PAYMENT order of an ENDED auction succeeds and leaves the payment
\* CAPTURED with a transaction id and amount = order.total_amount, the order
\* PAID, exactly one receipt with total_paid = order.total_amount, and exactly
\* one shipment with status PENDING and estimated_days = the item's
\* shipping_time_days.
C23_SuccessfulPayment ==
    [][ \A u \in Users, o \in OrderIds, card \in Cards :
          ( /\ pay_order(u, o, card)
            /\ o \in 1..Len(orders)
            /\ u = orders[o].buyer_id
            /\ orders[o].status = "PENDING_PAYMENT"
            /\ auctions[orders[o].auction_id].status = "ENDED"
            /\ ~should_fail(card) )
          => ( /\ resp'.result = "ok"
               /\ CountOf(payments', o) = 1
               /\ \A k \in PaymentsOf(payments', o) :
                     /\ payments'[k].status = "CAPTURED"
                     /\ payments'[k].processor_txn_id # "null"
                     /\ payments'[k].amount = orders[o].total_amount
                     /\ resp'.body.payment_id = k
               /\ orders'[o] = [orders[o] EXCEPT !.status = "PAID"]
               /\ CountOf(receipts', o) = 1
               /\ \A k \in 1..Len(receipts') :
                     receipts'[k].order_id = o
                     => receipts'[k].total_paid = orders[o].total_amount
               /\ CountOf(shipments', o) = 1
               /\ \A k \in 1..Len(shipments') :
                     shipments'[k].order_id = o
                     => /\ shipments'[k].status = "PENDING"
                        /\ shipments'[k].estimated_days =
                              items[orders[o].item_id].shipping_time_days )
      ]_vars

C23_Witness ==
    /\ resp.op = "pay_order"
    /\ resp.result = "ok"
    /\ resp.body.message = "Payment processed successfully"
    /\ Len(receipts) = 1
    /\ Len(shipments) = 1
    /\ orders[1].shipping_method = "EXPEDITED"

\* C24: create_order on an auction stored as ACTIVE whose end_time has passed
\* applies the lazy close (status ENDED, winner = its highest bid) and then
\* creates the order for that winner (here: called by the highest bidder with
\* an address of their own).
C24_CreateOrderLazyClose ==
    [][ \A u \in Users, a \in Items, m \in ShippingMethod, ad \in Addresses :
          ( /\ create_order(u, a, m, ad)
            /\ ExpiredActive(a)
            /\ TopBids(bids, a) # {}
            /\ \A i \in TopBids(bids, a) : bids[i].bidder_id = u
            /\ address_owner[ad] = u )
          => ( /\ ClosedWithWinner(a)
               /\ resp'.result = "ok"
               /\ \E k \in 1..Len(orders') :
                     /\ orders'[k].auction_id = a
                     /\ orders'[k].buyer_id = u )
      ]_vars

\* C25: get_my_bids lists every bid of the user and labels it WON if the
\* auction is ENDED and its winning_bidder_id is the user, ENDED if the auction
\* is ENDED otherwise or is not ACTIVE, and for an ACTIVE auction LEADING if
\* the bid is the auction's leader bid and OUTBID otherwise (so a lower bid of
\* the leading bidder is OUTBID; among bids that share the maximum amount the
\* leader is one of them).  current_highest_bid is the auction's maximum amount
\* whatever the label.
MyBidLabelled(u, e) ==
    LET i == e.bid_id
        a == bids[i].auction_id
        auc == auctions[a]
    IN /\ bids[i].bidder_id = u
       /\ e.auction_id = a
       /\ e.last_bid_amount = bids[i].amount
       /\ e.current_highest_bid = Max(AmountsOf(bids, a))
       /\ e.auction_status = auc.status
       /\ IF auc.status = "ENDED"
          THEN e.status = (IF auc.winning_bidder_id = u THEN "WON" ELSE "ENDED")
          ELSE IF auc.status # "ACTIVE"
          THEN e.status = "ENDED"
          ELSE IF i \notin TopBids(bids, a)
          THEN e.status = "OUTBID"
          ELSE IF TopBids(bids, a) = {i}
          THEN e.status = "LEADING"
          ELSE e.status \in {"LEADING", "OUTBID"}

C25_MyBidsLabels ==
    (resp.op = "get_my_bids" /\ resp.result = "ok")
    => /\ Len(resp.body.bids) =
            Cardinality({i \in 1..Len(bids) : bids[i].bidder_id = resp.caller})
       /\ \A k \in 1..Len(resp.body.bids) : MyBidLabelled(resp.caller, resp.body.bids[k])
       /\ \A k \in 1..Len(resp.body.bids) : \A l \in 1..Len(resp.body.bids) :
             k # l => resp.body.bids[k].bid_id # resp.body.bids[l].bid_id

C25_Witness ==
    /\ resp.op = "get_my_bids"
    /\ resp.result = "ok"
    /\ Len(resp.body.bids) = 2
    /\ resp.body.bids[1].status = "LEADING"
    /\ resp.body.bids[2].status = "OUTBID"
    /\ resp.body.bids[1].last_bid_amount > resp.body.bids[2].last_bid_amount

\* C26: whatever the sequence or interleaving of create_auction requests, an
\* item has at most one auction; a create_auction that reaches its insert when
\* the item already has an auction fails and leaves the auctions table as it was.
OneAuctionPerItem ==
    \A k \in DOMAIN auctions : \A l \in DOMAIN auctions :
        auctions[k].item_id = auctions[l].item_id => k = l

CreateOnExistingAuctionFails ==
    \A p \in Procs :
        ( /\ create_auction_commit(p)
          /\ inflight[p].pc = "auction_loaded"
          /\ \E k \in DOMAIN auctions : auctions[k].item_id = inflight[p].auction_data.item_id )
        => /\ resp'.result \in {"Forbidden", "Conflict", "IntegrityError"}
           /\ auctions' = auctions

C26_OneAuctionPerItem == []OneAuctionPerItem /\ [][CreateOnExistingAuctionFails]_vars

C26_Witness ==
    /\ resp.op = "create_auction"
    /\ resp.result = "IntegrityError"
    /\ DOMAIN auctions = Items
    /\ bids # <<>>

\* C27: when end_auction closes an auction that is not ENDED yet, it sets the
\* two winner fields together: with bids, winning_bid_id and winning_bidder_id
\* are the id and the bidder of a bid of maximum amount and final_price is that
\* amount; without bids both are null and final_price is the starting price.
\* In every reachable state the two winner fields are both null or both set.
WinnerFieldsTogether ==
    \A a \in DOMAIN auctions :
        /\ (auctions[a].winning_bid_id = NoBid) <=> (auctions[a].winning_bidder_id = NoUser)
        /\ auctions[a].winning_bid_id # NoBid =>
              /\ auctions[a].winning_bid_id \in BidIdsOf(bids, a)
              /\ auctions[a].winning_bidder_id = bids[auctions[a].winning_bid_id].bidder_id

CloseSetsWinner ==
    \A u \in Users, a \in Items :
        ( /\ end_auction(u, a)
          /\ a \in DOMAIN auctions
          /\ auctions[a].status # "ENDED"
          /\ u = items[auctions[a].item_id].seller_id )
        => /\ auctions'[a].status = "ENDED"
           /\ resp'.result = "ok"
           /\ resp'.body.winning_bid_id = auctions'[a].winning_bid_id
           /\ resp'.body.winning_bidder_id = auctions'[a].winning_bidder_id
           /\ IF BidIdsOf(bids, a) # {}
              THEN /\ auctions'[a].winning_bid_id \in BidIdsOf(bids, a)
                   /\ bids[auctions'[a].winning_bid_id].amount = Max(AmountsOf(bids, a))
                   /\ auctions'[a].winning_bidder_id =
                        bids[auctions'[a].winning_bid_id].bidder_id
                   /\ resp'.body.final_price = Max(AmountsOf(bids, a))
              ELSE /\ auctions'[a].winning_bid_id = NoBid
                   /\ auctions'[a].winning_bidder_id = NoUser
                   /\ resp'.body.final_price = auctions[a].starting_price

C27_CloseWinnerFields == []WinnerFieldsTogether /\ [][CloseSetsWinner]_vars

C27_Witness ==
    /\ IsClosingResponse(resp)
    /\ resp.body.winning_bid_id # NoBid
    /\ \E a \in DOMAIN auctions : \E i \in BidIdsOf(bids, a) :
          /\ auctions[a].winning_bid_id = resp.body.winning_bid_id
          /\ bids[i].amount < resp.body.final_price

\* C28: when several bids of an auction share the maximum amount, the leader
\* that reads report and the winner chosen at a close is the earliest placed of
\* them (bids are stored in the order they were placed), so that get_auction,
\* get_my_bids, end_auction and get_auction_status agree on one bid.
EarliestLeader(a) == highest_bid(bids, a)

ReadsReportEarliest ==
    /\ (resp.op = "get_my_bids" /\ resp.result = "ok") =>
          \A k \in 1..Len(resp.body.bids) :
              LET e == resp.body.bids[k] IN
              auctions[e.auction_id].status = "ACTIVE" =>
                  (e.status = "LEADING" <=> e.bid_id = EarliestLeader(e.auction_id))
    /\ (resp.op = "get_auction" /\ resp.result = "ok") =>
          resp.body.current_highest_bidder_id =
              BidderOf(bids, EarliestLeader(resp.body.auction_id))

CloseChoosesEarliest ==
    \A a \in DOMAIN auctions :
        (auctions[a].winning_bid_id = NoBid /\ auctions'[a].winning_bid_id # NoBid)
        => auctions'[a].winning_bid_id = EarliestLeader(a)

C28_TieBreakEarliest == []ReadsReportEarliest /\ [][CloseChoosesEarliest]_vars

\* C29: every order references an auction that is ENDED with a recorded
\* winner, its buyer_id is the auction's winning_bidder_id and its
\* winning_bid_amount is the amount of the auction's winning bid; create_order
\* on an auction that is not ENDED, or that is ENDED without a winner, fails
\* and creates no order.
OrdersReferenceWinner ==
    \A k \in 1..Len(orders) :
        /\ orders[k].auction_id \in DOMAIN auctions
        /\ LET auc == auctions[orders[k].auction_id] IN
           /\ auc.status = "ENDED"
           /\ auc.winning_bid_id \in BidIdsOf(bids, orders[k].auction_id)
           /\ auc.winning_bidder_id # NoUser
           /\ orders[k].buyer_id = auc.winning_bidder_id
           /\ orders[k].winning_bid_amount = bids[auc.winning_bid_id].amount

NoOrderWithoutWinner ==
    \A u \in Users, a \in Items, m \in ShippingMethod, ad \in Addresses :
        ( /\ create_order(u, a, m, ad)
          /\ a \in DOMAIN auctions
          /\ auctions[a].status # "ENDED" \/ auctions[a].winning_bid_id = NoBid )
        => /\ resp'.result \notin {"ok"}
           /\ orders' = orders

C29_OrderReferencesWinner == []OrdersReferenceWinner /\ [][NoOrderWithoutWinner]_vars

C29_Witness ==
    /\ resp.op = "create_order"
    /\ resp.result = "WinningBidNotFound"
    /\ \E a \in DOMAIN auctions :
          /\ auctions[a].status = "ENDED"
          /\ auctions[a].winning_bid_id = NoBid
          /\ BidIdsOf(bids, a) # {}

\* C30: end_auction called by a user who is not the item's seller fails with
\* Forbidden whatever the auction's state, and leaves the auction's status,
\* winning_bid_id and winning_bidder_id (and every other stored row) unchanged.
C30_EndAuctionForbidden ==
    [][ \A u \in Users, a \in Items :
          ( /\ end_auction(u, a)
            /\ a \in DOMAIN auctions
            /\ u # items[auctions[a].item_id].seller_id )
          => ( /\ resp'.result = "Forbidden"
               /\ auctions'[a].status = auctions[a].status
               /\ auctions'[a].winning_bid_id = auctions[a].winning_bid_id
               /\ auctions'[a].winning_bidder_id = auctions[a].winning_bidder_id
               /\ UNCHANGED <<auctions, bids, orders, payments, receipts, shipments>> )
      ]_vars

C30_Witness ==
    /\ resp.op = "end_auction"
    /\ resp.result = "Forbidden"
    /\ resp.caller # Seller
    /\ \E a \in DOMAIN auctions :
          /\ auctions[a].status = "ACTIVE"
          /\ auctions[a].end_time <= now
          /\ \E i \in BidIdsOf(bids, a) : bids[i].bidder_id = resp.caller

\* C31: a place_bid on a SCHEDULED auction with start_time <= now < end_time
\* leaves the auction ACTIVE even when the bid itself is rejected (too low,
\* self-bid); the auction never returns to SCHEDULED, and get_auction and
\* get_auction_status report the stored status.
ActivatedByBid ==
    \A u \in Users, a \in Items, amt \in Amounts :
        ( /\ place_bid(u, a, amt)
          /\ a \in DOMAIN auctions
          /\ auctions[a].status = "SCHEDULED"
          /\ auctions[a].start_time <= now
          /\ now < auctions[a].end_time )
        => /\ auctions'[a].status = "ACTIVE"
           /\ resp'.result \in {"ok", "BidTooLow", "SelfBid"}

NeverScheduledAgain ==
    \A a \in DOMAIN auctions :
        auctions[a].status # "SCHEDULED" => auctions'[a].status # "SCHEDULED"

ReadsObserveStoredStatus ==
    (resp.op \in {"get_auction", "get_auction_status"} /\ resp.result = "ok")
    => resp.body.status = auctions[resp.body.auction_id].status

C31_RejectedBidActivates ==
    /\ []ReadsObserveStoredStatus
    /\ [][ActivatedByBid /\ NeverScheduledAgain]_vars

C31_Witness ==
    /\ resp.op = "place_bid"
    /\ resp.result \in {"BidTooLow", "SelfBid"}
    /\ bids = <<>>
    /\ now > 0
    /\ \E a \in DOMAIN auctions :
          auctions[a].start_time = now /\ auctions[a].status = "ACTIVE"

\* C32: place_bid records a bid only when start_time <= now < end_time and the
\* auction is ACTIVE once auto-activation has run.  A bid at or after end_time
\* fails AuctionEnded, a bid before start_time fails NotStarted, and a bid
\* inside the window on an ENDED or CANCELLED auction fails InvalidState; none
\* of these records a bid.
BidWindow ==
    \A u \in Users, a \in Items, amt \in Amounts :
        (place_bid(u, a, amt) /\ a \in DOMAIN auctions)
        => LET auc == auctions[a] IN
           /\ auc.end_time <= now
                => (resp'.result = "AuctionEnded" /\ bids' = bids)
           /\ now < auc.start_time
                => (resp'.result = "NotStarted" /\ bids' = bids)
           /\ ( /\ auc.start_time <= now
                /\ now < auc.end_time
                /\ auc.status \in {"ENDED", "CANCELLED"} )
                => (resp'.result = "InvalidState" /\ bids' = bids)
           /\ bids' # bids
                => /\ auc.start_time <= now
                   /\ now < auc.end_time
                   /\ auc.status \in {"ACTIVE", "SCHEDULED"}
                   /\ auctions'[a].status = "ACTIVE"
                   /\ resp'.result = "ok"

C32_BidWindow == [][BidWindow]_vars

C32_Witness ==
    /\ resp.op = "place_bid"
    /\ resp.result = "InvalidState"
    /\ \E a \in DOMAIN auctions :
          /\ auctions[a].status = "CANCELLED"
          /\ auctions[a].start_time <= now
          /\ now < auctions[a].end_time

\* C33: bids are append-only: no step changes or removes a stored bid (its
\* auction, bidder, amount and place in the order of placement stay fixed),
\* and a place_bid that is rejected, whatever the failure, leaves the bids as
\* they were.
BidsAppendOnly ==
    /\ Len(bids') >= Len(bids)
    /\ \A i \in 1..Len(bids) : bids'[i] = bids[i]
    /\ (resp'.op = "place_bid" /\ resp'.result # "ok") => bids' = bids

C33_BidsAppendOnly == [][BidsAppendOnly]_vars

C33_Witness ==
    /\ resp.op = "end_auction"
    /\ resp.result = "ok"
    /\ Len(bids) = 2
    /\ bids[1].bidder_id = bids[2].bidder_id
    /\ bids[1].amount < bids[2].amount

\* C34: the time_left_seconds that get_my_bids reports for a bid equals the
\* remaining time of the bid's auction as get_remaining_time computes it: null
\* unless the auction is ACTIVE, and max(0, end_time - now) otherwise, so
\* never negative and never null for an ACTIVE auction.
remaining_seconds(auc) ==
    IF auc.status # "ACTIVE" THEN None ELSE Max({0, auc.end_time - now})

C34_TimeLeftAgrees ==
    /\ (resp.op = "get_my_bids" /\ resp.result = "ok") =>
          \A k \in 1..Len(resp.body.bids) :
              LET e == resp.body.bids[k] IN
              /\ e.time_left_seconds = get_remaining_time(auctions[e.auction_id])
              /\ e.time_left_seconds = remaining_seconds(auctions[e.auction_id])
    /\ (resp.op = "get_auction" /\ resp.result = "ok") =>
          resp.body.remaining_time_seconds =
              remaining_seconds(auctions[resp.body.auction_id])

\* C35: every stored auction has min_increment >= 0 (create_auction refuses a
\* negative one), so the current price of an auction is never below its
\* starting price and never decreases.
MinIncrementNonNegative ==
    \A a \in DOMAIN auctions :
        /\ auctions[a].min_increment >= 0
        /\ get_current_bidding_price(auctions[a], bids, a) >= auctions[a].starting_price

PriceNeverDecreases ==
    \A a \in DOMAIN auctions :
        get_current_bidding_price(auctions'[a], bids', a)
            >= get_current_bidding_price(auctions[a], bids, a)

C35_NonNegativeIncrement == []MinIncrementNonNegative /\ [][PriceNeverDecreases]_vars

\* C36: once an auction is ENDED it stays ENDED and its winning_bid_id and
\* winning_bidder_id never change, whatever request comes later (place_bid,
\* end_auction again, get_auction_status, create_order, pay_order).
WinnerFrozen ==
    \A a \in DOMAIN auctions :
        auctions[a].status = "ENDED"
        => /\ a \in DOMAIN auctions'
           /\ auctions'[a].status = "ENDED"
           /\ auctions'[a].winning_bid_id = auctions[a].winning_bid_id
           /\ auctions'[a].winning_bidder_id = auctions[a].winning_bidder_id

C36_WinnerFrozen == [][WinnerFrozen]_vars

C36_Witness ==
    /\ resp.op = "get_auction_status"
    /\ resp.result = "ok"
    /\ \E k \in 1..Len(orders) :
          /\ orders[k].status = "PAID"
          /\ auctions[orders[k].auction_id].status = "ENDED"
          /\ auctions[orders[k].auction_id].winning_bidder_id = orders[k].buyer_id
          /\ now > auctions[orders[k].auction_id].end_time

\* C37: an auction that has a bid when its end_time passes eventually has a
\* recorded winner, its highest bid, whichever request (place_bid,
\* get_auction_status, end_auction) observes the expiry first, provided
\* get_auction_status requests keep arriving.
C37_ExpiredAuctionGetsWinner ==
    \A a \in Items :
        (a \in DOMAIN auctions /\ auctions[a].end_time <= now /\ BidIdsOf(bids, a) # {})
        ~> (a \in DOMAIN auctions /\ auctions[a].winning_bid_id \in TopBids(bids, a))

\* C38: for every order in status PAID, the amount of its captured payment,
\* the total_paid of its receipt and the order's total_amount are equal in
\* every reachable state.
C38_PaidAmountsAgree ==
    \A o \in 1..Len(orders) :
        orders[o].status = "PAID"
        => /\ \A k \in PaymentsOf(payments, o) :
                payments[k].status = "CAPTURED" => payments[k].amount = orders[o].total_amount
           /\ \A k \in 1..Len(receipts) :
                receipts[k].order_id = o => receipts[k].total_paid = orders[o].total_amount

\* C39: in every committed state the status of an order and of its payment
\* agree: the order is PAID exactly when it has a CAPTURED payment, a FAILED
\* order has a payment and it is FAILED, an order in PENDING_PAYMENT has no
\* payment, and no payment is left INITIATED.
C39_OrderPaymentAgree ==
    \A o \in 1..Len(orders) :
        LET P == PaymentsOf(payments, o) IN
        /\ (orders[o].status = "PAID") <=> (\E k \in P : payments[k].status = "CAPTURED")
        /\ orders[o].status = "FAILED" =>
              (P # {} /\ \A k \in P : payments[k].status = "FAILED")
        /\ orders[o].status = "PENDING_PAYMENT" => P = {}
        /\ \A k \in P : payments[k].status \in {"CAPTURED", "FAILED"}

C39_Witness ==
    /\ resp.op = "pay_order"
    /\ resp.result = "IntegrityError"
    /\ \E o \in 1..Len(orders) :
          /\ orders[o].status = "FAILED"
          /\ \E k \in PaymentsOf(payments, o) : payments[k].status = "FAILED"
    /\ \E p \in Procs : inflight[p].pc # "idle"

\* C40: create_auction stores status SCHEDULED for every auction whose
\* start_time is still in the future, whatever status the request asks for, so
\* an ACTIVE auction always has start_time <= now.
CreatedScheduled ==
    \A u \in Users, d \in AuctionCreate :
        ( /\ create_auction(u, d)
          /\ d.item_id \notin DOMAIN auctions
          /\ d.item_id \in DOMAIN auctions'
          /\ now < d.start_time )
        => auctions'[d.item_id].status = "SCHEDULED"

ActiveHasStarted ==
    \A a \in DOMAIN auctions :
        auctions[a].status = "ACTIVE" => auctions[a].start_time <= now

C40_FutureAuctionScheduled == []ActiveHasStarted /\ [][CreatedScheduled]_vars

====
